---- MODULE Spec2Model ----
(***************************************************************************)
(* Model of tools/encrypt_firmware.py, the host-side OTA firmware          *)
(* encryption tool (AES-256-CBC with PKCS#7 padding), of the release       *)
(* descriptor record it writes, and of the device-side update state        *)
(* machine that consumes the artifacts.                                    *)
(*                                                                         *)
(* Strings (paths, version strings) are sequences of one-character         *)
(* strings; file contents are sequences of bytes (0..255).  A missing      *)
(* optional command-line argument is the empty string: the tool tests      *)
(* them by truthiness only (`not args.input`), which None and "" share.    *)
(***************************************************************************)
EXTENDS Integers, Sequences, FiniteSets, TLC

\* ------------------------------------------------------------------ bounds
\* Longest firmware image (input file) drawn in the codec specification.
MaxLen == 17
\* Number of initialisation vectors get_random_bytes(16) may return.
NumIVs == 2
\* Number of keys, beside the shipped AES_KEY, that --generate-key may print.
NumKeys == 1
\* Number of tool invocations in one behaviour.
MaxRuns == 2
\* Longest version / blob-identifier string drawn in the descriptor specification.
MaxStrLen == 2
\* Highest firmware version number the device-side state machine sees.
MaxVersion == 3

\* --------------------------------------------------------------- constants
BLOCK_SIZE == 16
\* AES-256 key size in bytes (the 32 entries of AES_KEY, get_random_bytes(32)).
KEY_SIZE == 32

\* ------------------------------------------------------------ byte helpers
RECURSIVE Xor(_, _)
\* Bitwise exclusive or of two bytes.
Xor(a, b) ==
    IF a = 0 /\ b = 0 THEN 0
    ELSE (((a % 2) + (b % 2)) % 2) + 2 * Xor(a \div 2, b \div 2)

XorBlock(x, y) == [i \in 1..Len(x) |-> Xor(x[i], y[i])]

\* s[from..] (Python s[from-1:]), s[..to] (Python s[:to]).
Drop(s, n) == IF n >= Len(s) THEN <<>> ELSE SubSeq(s, n + 1, Len(s))
Take(s, n) == IF n >= Len(s) THEN s ELSE SubSeq(s, 1, n)

\* ------------------------------------------------------------ the key
\* The key shipped in the source: 32 zero bytes.
AES_KEY == [i \in 1..KEY_SIZE |-> 0]

\* A key printed by generate_new_key: get_random_bytes(32), one per seed.
GeneratedKey(s) == [i \in 1..KEY_SIZE |-> ((s * 29 * i) + (7 * s) + 3) % 256]

\* The keys the module-level AES_KEY can hold: the shipped one, or one pasted
\* from --generate-key as the header comment instructs.
Keys == {AES_KEY} \cup {GeneratedKey(s) : s \in 1..NumKeys}

\* get_random_bytes(BLOCK_SIZE): the IVs the random source may return.
RandomIV(s) == [i \in 1..BLOCK_SIZE |-> ((s * 53) + (i * 17)) % 256]
IVs == {RandomIV(s) : s \in 1..NumIVs}

\* ------------------------------------------------------------ block cipher
\* AES is modelled as a keyed permutation of 16-byte blocks: a byte
\* transposition, a key addition, an invertible byte substitution and a
\* second key addition.  Every property used below follows from AES being a
\* permutation of blocks for each key, which this is.
SubByte(x) == ((x * 7) + 3) % 256
InvSubByte(y) == ((y + 253) * 183) % 256
ShiftIdx(i) == (((i - 1) * 5) % BLOCK_SIZE) + 1
InvShiftIdx(j) == (((j - 1) * 13) % BLOCK_SIZE) + 1

EncryptBlock(k, b) ==
    [i \in 1..BLOCK_SIZE |->
        Xor(SubByte(Xor(b[ShiftIdx(i)], k[i])), k[BLOCK_SIZE + i])]

DecryptBlock(k, c) ==
    [j \in 1..BLOCK_SIZE |->
        LET i == InvShiftIdx(j)
        IN  Xor(InvSubByte(Xor(c[i], k[BLOCK_SIZE + i])), k[i])]

RECURSIVE CBCEncrypt(_, _, _)
\* cipher.encrypt(data) of AES.new(k, AES.MODE_CBC, iv), for block-aligned data.
CBCEncrypt(k, prev, data) ==
    IF Len(data) = 0 THEN <<>>
    ELSE LET c == EncryptBlock(k, XorBlock(Take(data, BLOCK_SIZE), prev))
         IN  c \o CBCEncrypt(k, c, Drop(data, BLOCK_SIZE))

RECURSIVE CBCDecrypt(_, _, _)
\* cipher.decrypt(data) of AES.new(k, AES.MODE_CBC, iv), for block-aligned data.
CBCDecrypt(k, prev, data) ==
    IF Len(data) = 0 THEN <<>>
    ELSE LET c == Take(data, BLOCK_SIZE)
         IN  XorBlock(DecryptBlock(k, c), prev)
               \o CBCDecrypt(k, c, Drop(data, BLOCK_SIZE))

\* ------------------------------------------------------------ padding
\* The mutant of pad: no extra block for block-aligned data.
pad_noFullBlock(data, bs) ==
    LET n == (bs - (Len(data) % bs)) % bs
    IN  data \o [i \in 1..n |-> n]

\* Crypto.Util.Padding.pad(data, block_size), PKCS#7.
pad(data, bs) ==
    LET n == bs - (Len(data) % bs)
    IN  data \o [i \in 1..n |-> n]

\* Outcomes of the library calls: a value, or the ValueError raised.
Ok(v) == [ok |-> TRUE, val |-> v, err |-> "none"]
Raise(e) == [ok |-> FALSE, val |-> <<>>, err |-> e]

\* The mutant of unpad: the last byte is trusted, the bytes before it unchecked.
unpad_lastByteOnly(p, bs) ==
    IF Len(p) = 0 THEN Raise("Zero-length input cannot be unpadded")
    ELSE IF (Len(p) % bs) # 0 THEN Raise("Input data is not padded")
    ELSE LET n == p[Len(p)]
         IN  IF n < 1 \/ n > (IF bs < Len(p) THEN bs ELSE Len(p))
             THEN Raise("Padding is incorrect.")
             ELSE Ok(Take(p, Len(p) - n))

\* The mutant of unpad: empty input is accepted as empty plaintext.
unpad_acceptEmpty(p, bs) ==
    IF Len(p) = 0 THEN Ok(<<>>)
    ELSE IF (Len(p) % bs) # 0 THEN Raise("Input data is not padded")
    ELSE LET n == p[Len(p)]
         IN  IF n < 1 \/ n > (IF bs < Len(p) THEN bs ELSE Len(p))
             THEN Raise("Padding is incorrect.")
             ELSE IF \E i \in (Len(p) - n + 1)..Len(p) : p[i] # n
             THEN Raise("PKCS#7 padding is incorrect.")
             ELSE Ok(Take(p, Len(p) - n))

\* Crypto.Util.Padding.unpad(padded_data, block_size), PKCS#7.
unpad(p, bs) ==
    IF Len(p) = 0 THEN Raise("Zero-length input cannot be unpadded")
    ELSE IF (Len(p) % bs) # 0 THEN Raise("Input data is not padded")
    ELSE LET n == p[Len(p)]
         IN  IF n < 1 \/ n > (IF bs < Len(p) THEN bs ELSE Len(p))
             THEN Raise("Padding is incorrect.")
             ELSE IF \E i \in (Len(p) - n + 1)..Len(p) : p[i] # n
             THEN Raise("PKCS#7 padding is incorrect.")
             ELSE Ok(Take(p, Len(p) - n))

\* ------------------------------------------------------------ the codec
\* encrypt_firmware, lines 58-65: the bytes written to the artifact.
EncryptBytes(plaintext, k, iv) ==
    iv \o CBCEncrypt(k, iv, pad(plaintext, BLOCK_SIZE))

\* decrypt_firmware, lines 79-84: split, AES.new, cipher.decrypt, unpad.
DecryptBytes(data, k) ==
    LET iv == Take(data, BLOCK_SIZE)
        ciphertext == Drop(data, BLOCK_SIZE)
    IN  IF Len(iv) # BLOCK_SIZE
        THEN Raise("Incorrect IV length (it must be 16 bytes long)")
        ELSE IF (Len(ciphertext) % BLOCK_SIZE) # 0
        THEN Raise("Data must be padded to 16 byte boundary in CBC mode")
        ELSE unpad(CBCDecrypt(k, iv, ciphertext), BLOCK_SIZE)


\* ------------------------------------------------------------ strings
RECURSIVE Replace(_, _, _)
\* str.replace(old, new): every non-overlapping occurrence, left to right.
Replace(s, old, new) ==
    IF Len(s) < Len(old) THEN s
    ELSE IF SubSeq(s, 1, Len(old)) = old
    THEN new \o Replace(Drop(s, Len(old)), old, new)
    ELSE <<Head(s)>> \o Replace(Tail(s), old, new)

\* os.path.join(a, b) on POSIX.
JoinPath(a, b) ==
    IF Len(b) > 0 /\ Head(b) = "/" THEN b
    ELSE IF Len(a) = 0 \/ a[Len(a)] = "/" THEN a \o b
    ELSE a \o <<"/">> \o b

\* The index of the last "/" of a path, 0 when it has none.
LastSlash(p) ==
    LET S == {i \in 1..Len(p) : p[i] = "/"}
    IN  IF S = {} THEN 0 ELSE CHOOSE i \in S : \A j \in S : j <= i

\* os.path.dirname(p): the directory a file at p is created in.
Dirname(p) ==
    IF LastSlash(p) = 0 THEN <<>>
    ELSE IF LastSlash(p) = 1 THEN <<"/">>
    ELSE Take(p, LastSlash(p) - 1)

\* The directories os.makedirs(p) makes sure exist: p and its ancestors.
Ancestors(p) ==
    {p} \cup {Take(p, i - 1) : i \in {j \in 2..Len(p) : p[j] = "/"}}

\* The byte a character of a text-mode file is written as (UTF-8 / ASCII).
Ord(c) ==
    CASE c = "\n" -> 10 [] c = "\t" -> 9 [] c = " " -> 32 [] c = "," -> 44
      [] c = "." -> 46 [] c = "/" -> 47 [] c = "0" -> 48 [] c = "1" -> 49
      [] c = "2" -> 50 [] c = "A" -> 65 [] c = "D" -> 68 [] c = "E" -> 69
      [] c = "F" -> 70 [] c = "H" -> 72 [] c = "I" -> 73 [] c = "L" -> 76
      [] c = "M" -> 77 [] c = "P" -> 80 [] c = "R" -> 82 [] c = "T" -> 84
      [] c = "U" -> 85 [] c = "W" -> 87 [] c = "_" -> 95
      [] OTHER -> 63

\* f.write(text) on a file opened in text mode.
Encode(text) == [i \in 1..Len(text) |-> Ord(text[i])]

\* ".enc", "_decrypted.bin", "latest.txt", "ota_releases", "PUT_FIRMWARE_FILE_ID_HERE".
EncSuffix == <<".", "e", "n", "c">>
DecryptedSuffix ==
    <<"_", "d", "e", "c", "r", "y", "p", "t", "e", "d", ".", "b", "i", "n">>
LatestName == <<"l", "a", "t", "e", "s", "t", ".", "t", "x", "t">>
OtaReleases == <<"o", "t", "a", "_", "r", "e", "l", "e", "a", "s", "e", "s">>
FileIdPlaceholder ==
    <<"P", "U", "T", "_", "F", "I", "R", "M", "W", "A", "R", "E", "_",
      "F", "I", "L", "E", "_", "I", "D", "_", "H", "E", "R", "E">>

\* ------------------------------------------------------------ descriptor
\* The mutant of DescriptorRecord: the line is not terminated.
DescriptorRecord_noNewline(v, id) == Encode(v \o <<",">> \o id)

\* The record written to latest.txt: f"{version},{file_id}\n".
DescriptorRecord(v, id) == Encode(v \o <<",">> \o id \o <<"\n">>)

\* The mutant of output_filename: the suffix is forgotten.
output_filename_noSuffix(v) == v

\* output_filename = f"{args.version}.enc"
output_filename(v) == v \o EncSuffix

\* The whitespace bytes str.strip() removes.
IsSpaceByte(b) == b \in {9, 10, 11, 12, 13, 32}

RECURSIVE LStrip(_)
LStrip(s) == IF Len(s) > 0 /\ IsSpaceByte(Head(s)) THEN LStrip(Tail(s)) ELSE s

RECURSIVE RStrip(_)
RStrip(s) ==
    IF Len(s) > 0 /\ IsSpaceByte(s[Len(s)]) THEN RStrip(Take(s, Len(s) - 1)) ELSE s

Trim(s) == LStrip(RStrip(s))

\* The positions of the commas of a record.
CommaPositions(rec) == {i \in 1..Len(rec) : rec[i] = Ord(",")}

\* parse(record_bytes): exactly one comma, two non-empty trimmed fields.
ParseDescriptor(rec) ==
    IF Cardinality(CommaPositions(rec)) # 1 THEN Raise("MalformedDescriptor")
    ELSE LET c == CHOOSE i \in CommaPositions(rec) : TRUE
             v == Trim(Take(rec, c - 1))
             id == Trim(Drop(rec, c))
         IN  IF Len(v) = 0 \/ Len(id) = 0 THEN Raise("MalformedDescriptor")
             ELSE Ok(<<v, id>>)

\* ------------------------------------------------------------ tool state
VARIABLES
    key,          \* the module-level AES_KEY
    fs,           \* the files: path -> bytes
    dirs,         \* the directories that exist
    pc,           \* where the running invocation is ("idle": none is running)
    args,         \* the parsed command line of the running invocation
    output_path,  \* main's output / output_path
    plaintext,    \* encrypt: the bytes read; decrypt: the unpadded result
    iv,           \* encrypt_firmware's iv
    ciphertext,   \* encrypt_firmware's ciphertext
    status,       \* how the invocation ended: "ok", "exit1" or the exception
    new_key,      \* the key generate_new_key printed
    runs,         \* invocations started so far
    fs0,          \* history: fs when the running invocation started
    dirs0         \* history: dirs when the running invocation started

toolVars == <<key, fs, dirs, pc, args, output_path, plaintext, iv, ciphertext,
              status, new_key, runs, fs0, dirs0>>

\* ------------------------------------------------------------ descriptor state
VARIABLES
    d_version,    \* publish's version
    d_id,         \* publish's blob identifier
    d_record,     \* the descriptor record published
    d_parsed,     \* the outcome of parsing it
    d_pc          \* "init", "published", "parsed"

descVars == <<d_version, d_id, d_record, d_parsed, d_pc>>

\* ------------------------------------------------------------ device state
VARIABLES
    u_state,      \* the Update State Machine's state
    slot,         \* slot -> the version of the image it holds (0: erased)
    bootable,     \* slot -> whether the slot is marked bootable
    primary,      \* the slot the bootloader boots by default (the active slot)
    boot_target,  \* the slot the bootloader tries on the next restart
    running,      \* the slot the device is running from
    confirmed,    \* the boot-confirmation flag
    current,      \* the persisted running version
    candidate,    \* the pending-candidate version (0: none)
    remote,       \* the version the remote descriptor publishes
    image         \* what the fetched artifact holds: "none", "corrupt", "empty", "too_large", "good"

usmVars == <<u_state, slot, bootable, primary, boot_target, running, confirmed,
             current, candidate, remote, image>>

vars == <<toolVars, descVars, usmVars>>

\* ------------------------------------------------------------ file system
\* os.path.exists(p)
Exists(p) == p \in DOMAIN fs \/ p \in dirs

\* The mutant of Exists: every path is taken to exist.
Exists_always(p) == TRUE

\* os.path.exists(args.input), line 146.
InputExists(p) == Exists(p)

\* The file system after f.write(bytes) on the file at p, opened at p.
WriteFile(f, p, bytes) == [q \in DOMAIN f \cup {p} |-> IF q = p THEN bytes ELSE f[q]]

\* open(p, 'w' / 'wb') succeeds: p is no directory and its directory exists.
CanCreate(p) == p \notin dirs /\ (Dirname(p) = <<>> \/ Dirname(p) \in dirs)

NoArgs ==
    [input |-> <<>>, version |-> <<>>, output_dir |-> <<>>, decrypt |-> FALSE,
     output |-> <<>>, generate_key |-> FALSE]

\* The paths and version strings of the command lines drawn.
FwPath == <<"f", "w">>
V1 == <<"1">>
ArtPath == JoinPath(OtaReleases, output_filename(V1))
LatestPath(dir) == JoinPath(dir, LatestName)

\* An invocation ends: the exit status or the uncaught exception.
Finish(st) ==
    /\ status' = st
    /\ pc' = "done"

Begin(a) ==
    /\ pc = "idle"
    /\ runs < MaxRuns
    /\ runs' = runs + 1
    /\ args' = a
    /\ fs0' = fs
    /\ dirs0' = dirs
    /\ UNCHANGED <<key, descVars, usmVars>>

\* ------------------------------------------------------------ main
\* main, 125-127: --generate-key prints a fresh key and returns.
GenerateKey(a) ==
    /\ Begin(a)
    /\ a.generate_key
    /\ \E s \in 1..NumKeys : new_key' = GeneratedKey(s)
    /\ Finish("ok")
    /\ UNCHANGED <<fs, dirs, output_path, plaintext, iv, ciphertext>>

\* main, 129-132: decrypt mode without an input file.
DecryptNoInput(a) ==
    /\ Begin(a)
    /\ ~a.generate_key /\ a.decrypt /\ a.input = <<>>
    /\ Finish("exit1")
    /\ UNCHANGED <<fs, dirs, output_path, plaintext, iv, ciphertext, new_key>>

\* main, 133-134: the output path of decrypt mode, then decrypt_firmware.
DecryptStart(a) ==
    /\ Begin(a)
    /\ ~a.generate_key /\ a.decrypt /\ a.input # <<>>
    /\ output_path' = IF a.output # <<>> THEN a.output
                      ELSE Replace(a.input, EncSuffix, DecryptedSuffix)
    /\ pc' = "dec_read"
    /\ UNCHANGED <<fs, dirs, plaintext, iv, ciphertext, status, new_key>>

\* main, 137-139: encrypt mode without an input file.
EncryptNoInput(a) ==
    /\ Begin(a)
    /\ ~a.generate_key /\ ~a.decrypt /\ a.input = <<>>
    /\ Finish("exit1")
    /\ UNCHANGED <<fs, dirs, output_path, plaintext, iv, ciphertext, new_key>>

\* main, 141-144: encrypt mode without --version.
EncryptNoVersion(a) ==
    /\ Begin(a)
    /\ ~a.generate_key /\ ~a.decrypt /\ a.input # <<>> /\ a.version = <<>>
    /\ Finish("exit1")
    /\ UNCHANGED <<fs, dirs, output_path, plaintext, iv, ciphertext, new_key>>

\* main, 146-148: the input file does not exist.
EncryptInputNotFound(a) ==
    /\ Begin(a)
    /\ ~a.generate_key /\ ~a.decrypt /\ a.input # <<>> /\ a.version # <<>>
    /\ ~InputExists(a.input)
    /\ Finish("exit1")
    /\ UNCHANGED <<fs, dirs, output_path, plaintext, iv, ciphertext, new_key>>

\* main, 150: os.makedirs(output_dir, exist_ok=True) on a path that is a file.
MakedirsFails(a) ==
    /\ Begin(a)
    /\ ~a.generate_key /\ ~a.decrypt /\ a.input # <<>> /\ a.version # <<>>
    /\ InputExists(a.input)
    /\ a.output_dir \in DOMAIN fs
    /\ Finish("FileExistsError")
    /\ UNCHANGED <<fs, dirs, output_path, plaintext, iv, ciphertext, new_key>>

\* main, 150-157: the output directory, the artifact's path, then encrypt_firmware.
EncryptStart(a) ==
    /\ Begin(a)
    /\ ~a.generate_key /\ ~a.decrypt /\ a.input # <<>> /\ a.version # <<>>
    /\ InputExists(a.input)
    /\ a.output_dir \notin DOMAIN fs
    /\ dirs' = dirs \cup Ancestors(a.output_dir)
    /\ output_path' = JoinPath(a.output_dir, output_filename(a.version))
    /\ pc' = "enc_read"
    /\ UNCHANGED <<fs, plaintext, iv, ciphertext, status, new_key>>

\* ------------------------------------------------------------ encrypt_firmware
\* 52-53: the input is a directory (it exists, and open() refuses it).
EncReadFails ==
    /\ pc = "enc_read"
    /\ args.input \notin DOMAIN fs
    /\ Finish("IsADirectoryError")
    /\ UNCHANGED <<key, fs, dirs, args, output_path, plaintext, iv, ciphertext,
                   new_key, runs, fs0, dirs0, descVars, usmVars>>

\* 52-61: read the input, draw the IV, pad and encrypt.
EncRead ==
    /\ pc = "enc_read"
    /\ args.input \in DOMAIN fs
    /\ plaintext' = fs[args.input]
    /\ \E r \in IVs :
         /\ iv' = r
         /\ ciphertext' = CBCEncrypt(key, r, pad(fs[args.input], BLOCK_SIZE))
    /\ pc' = "enc_open"
    /\ UNCHANGED <<key, fs, dirs, args, output_path, status, new_key, runs,
                   fs0, dirs0, descVars, usmVars>>

\* 63: open(output_path, 'wb') refused.
EncOpenFails ==
    /\ pc = "enc_open"
    /\ ~CanCreate(output_path)
    /\ Finish(IF output_path \in dirs THEN "IsADirectoryError" ELSE "FileNotFoundError")
    /\ UNCHANGED <<key, fs, dirs, args, output_path, plaintext, iv, ciphertext,
                   new_key, runs, fs0, dirs0, descVars, usmVars>>

\* 63: open(output_path, 'wb') creates or truncates the artifact.
EncOpen ==
    /\ pc = "enc_open"
    /\ CanCreate(output_path)
    /\ fs' = WriteFile(fs, output_path, <<>>)
    /\ pc' = "enc_write_iv"
    /\ UNCHANGED <<key, dirs, args, output_path, plaintext, iv, ciphertext, status,
                   new_key, runs, fs0, dirs0, descVars, usmVars>>

\* The mutant of EncWriteIV: the IV is not written to the artifact.
EncWriteIV_skipped ==
    /\ pc = "enc_write_iv"
    /\ pc' = "enc_write_ct"
    /\ UNCHANGED <<key, fs, dirs, args, output_path, plaintext, iv, ciphertext,
                   status, new_key, runs, fs0, dirs0, descVars, usmVars>>

\* 64: f.write(iv)
EncWriteIV ==
    /\ pc = "enc_write_iv"
    /\ fs' = WriteFile(fs, output_path, fs[output_path] \o iv)
    /\ pc' = "enc_write_ct"
    /\ UNCHANGED <<key, dirs, args, output_path, plaintext, iv, ciphertext, status,
                   new_key, runs, fs0, dirs0, descVars, usmVars>>

\* 65: f.write(ciphertext), and the file is closed.
EncWriteCiphertext ==
    /\ pc = "enc_write_ct"
    /\ fs' = WriteFile(fs, output_path, fs[output_path] \o ciphertext)
    /\ pc' = "latest_open"
    /\ UNCHANGED <<key, dirs, args, output_path, plaintext, iv, ciphertext, status,
                   new_key, runs, fs0, dirs0, descVars, usmVars>>

\* main, 160-161: open(latest_path, 'w') creates or truncates latest.txt.
LatestOpen ==
    /\ pc = "latest_open"
    /\ CanCreate(LatestPath(args.output_dir))
    /\ fs' = WriteFile(fs, LatestPath(args.output_dir), <<>>)
    /\ pc' = "latest_write"
    /\ UNCHANGED <<key, dirs, args, output_path, plaintext, iv, ciphertext, status,
                   new_key, runs, fs0, dirs0, descVars, usmVars>>

\* main, 162: the descriptor record is written; the rest only prints.
LatestWrite ==
    /\ pc = "latest_write"
    /\ fs' = WriteFile(fs, LatestPath(args.output_dir),
                       DescriptorRecord(args.version, FileIdPlaceholder))
    /\ Finish("ok")
    /\ UNCHANGED <<key, dirs, args, output_path, plaintext, iv, ciphertext,
                   new_key, runs, fs0, dirs0, descVars, usmVars>>

\* ------------------------------------------------------------ decrypt_firmware
\* 76-77: the input cannot be opened.
DecReadFails ==
    /\ pc = "dec_read"
    /\ args.input \notin DOMAIN fs
    /\ Finish(IF args.input \in dirs THEN "IsADirectoryError" ELSE "FileNotFoundError")
    /\ UNCHANGED <<key, fs, dirs, args, output_path, plaintext, iv, ciphertext,
                   new_key, runs, fs0, dirs0, descVars, usmVars>>

\* 76-84: AES.new, cipher.decrypt or unpad raises ValueError.
DecryptFails ==
    /\ pc = "dec_read"
    /\ args.input \in DOMAIN fs
    /\ ~DecryptBytes(fs[args.input], key).ok
    /\ Finish(DecryptBytes(fs[args.input], key).err)
    /\ UNCHANGED <<key, fs, dirs, args, output_path, plaintext, iv, ciphertext,
                   new_key, runs, fs0, dirs0, descVars, usmVars>>

\* 76-84: the artifact is read, decrypted and unpadded.
DecryptOk ==
    /\ pc = "dec_read"
    /\ args.input \in DOMAIN fs
    /\ DecryptBytes(fs[args.input], key).ok
    /\ plaintext' = DecryptBytes(fs[args.input], key).val
    /\ pc' = "dec_open"
    /\ UNCHANGED <<key, fs, dirs, args, output_path, iv, ciphertext, status,
                   new_key, runs, fs0, dirs0, descVars, usmVars>>

\* 86: open(output_path, 'wb') refused.
DecOpenFails ==
    /\ pc = "dec_open"
    /\ ~CanCreate(output_path)
    /\ Finish(IF output_path \in dirs THEN "IsADirectoryError" ELSE "FileNotFoundError")
    /\ UNCHANGED <<key, fs, dirs, args, output_path, plaintext, iv, ciphertext,
                   new_key, runs, fs0, dirs0, descVars, usmVars>>

\* 86: open(output_path, 'wb') creates or truncates the output.
DecOpen ==
    /\ pc = "dec_open"
    /\ CanCreate(output_path)
    /\ fs' = WriteFile(fs, output_path, <<>>)
    /\ pc' = "dec_write"
    /\ UNCHANGED <<key, dirs, args, output_path, plaintext, iv, ciphertext, status,
                   new_key, runs, fs0, dirs0, descVars, usmVars>>

\* 87: f.write(plaintext); the rest only prints.
DecWrite ==
    /\ pc = "dec_write"
    /\ fs' = WriteFile(fs, output_path, plaintext)
    /\ Finish("ok")
    /\ UNCHANGED <<key, dirs, args, output_path, plaintext, iv, ciphertext,
                   new_key, runs, fs0, dirs0, descVars, usmVars>>

\* ------------------------------------------------------------ environment
\* The positions at which the invocation is about to read or write a file.
ReadPcs == {"enc_read", "dec_read"}
WritePcs == {"enc_open", "enc_write_iv", "enc_write_ct", "latest_open",
             "latest_write", "dec_open", "dec_write"}

\* A read fails in the operating system (EIO, EACCES): OSError, uncaught.
ReadError ==
    /\ pc \in ReadPcs
    /\ Finish("OSError: read")
    /\ UNCHANGED <<key, fs, dirs, args, output_path, plaintext, iv, ciphertext,
                   new_key, runs, fs0, dirs0, descVars, usmVars>>

\* An open for writing or a write fails (ENOSPC, EIO, EACCES): OSError, uncaught;
\* what was written before it stays.
WriteError ==
    /\ pc \in WritePcs
    /\ Finish("OSError: write")
    /\ UNCHANGED <<key, fs, dirs, args, output_path, plaintext, iv, ciphertext,
                   new_key, runs, fs0, dirs0, descVars, usmVars>>

\* The process exits: its memory is gone, the files stay.
Exit ==
    /\ pc = "done"
    /\ pc' = "idle"
    /\ args' = NoArgs
    /\ output_path' = <<>>
    /\ plaintext' = <<>>
    /\ iv' = <<>>
    /\ ciphertext' = <<>>
    /\ status' = "none"
    /\ new_key' = <<>>
    /\ fs0' = fs
    /\ dirs0' = dirs
    /\ UNCHANGED <<key, fs, dirs, runs, descVars, usmVars>>

\* The steps of a started invocation.
Steps ==
    \/ EncReadFails \/ EncRead \/ EncOpenFails \/ EncOpen \/ EncWriteIV
    \/ EncWriteCiphertext \/ LatestOpen \/ LatestWrite
    \/ DecReadFails \/ DecryptFails \/ DecryptOk \/ DecOpenFails \/ DecOpen
    \/ DecWrite \/ ReadError \/ WriteError \/ Exit

\* ------------------------------------------------------------ inputs
\* A firmware image of n bytes: all bytes f, or a ramp when f = 0.
Image(n, f) == [i \in 1..n |-> IF f = 0 THEN ((i * 37) + 11) % 256 ELSE f]

\* The firmware images drawn: every length up to MaxLen, of bytes that look
\* like padding (16) and of bytes that do not.
Images == {Image(n, f) : n \in 0..MaxLen, f \in {0, 16}}

\* Block-aligned data of nb blocks whose last byte is n and whose other bytes
\* are m: well-formed PKCS#7 padding exactly when 1 <= n <= 16 and m = n.
Shape(nb, n, m) ==
    [i \in 1..(nb * BLOCK_SIZE) |-> IF i = nb * BLOCK_SIZE THEN n ELSE m]

Shapes == {Shape(nb, n, m) : nb \in 1..2, n \in {0, 2, 16, 17}, m \in {2, 16}}

\* The files a decrypt may be pointed at: encryptions under the shipped key of
\* well- and ill-padded data (read under another key they are noise), and an
\* artifact cut short at every kind of length.
Blobs ==
    {RandomIV(1) \o CBCEncrypt(AES_KEY, RandomIV(1), d) : d \in Shapes}
      \cup {Take(EncryptBytes(Image(20, 0), AES_KEY, RandomIV(1)), n) :
               n \in {0, 5, 16, 17, 33}}

\* The state of the descriptor and device variables while the tool runs.
DescIdle ==
    /\ d_version = <<>> /\ d_id = <<>> /\ d_record = <<>>
    /\ d_parsed = Raise("none") /\ d_pc = "init"

UsmIdle ==
    /\ u_state = "Idle" /\ slot = <<1, 0>> /\ bootable = <<TRUE, FALSE>>
    /\ primary = 1 /\ boot_target = 1 /\ running = 1 /\ confirmed = TRUE
    /\ current = 1 /\ candidate = 0 /\ remote = 1 /\ image = "none"

\* No invocation is running; the working directory holds one file, `fw`.
ToolInit(contents) ==
    /\ key \in Keys
    /\ \E c \in contents : fs = [q \in {FwPath} |-> c]
    /\ dirs = {}
    /\ pc = "idle"
    /\ args = NoArgs
    /\ output_path = <<>> /\ plaintext = <<>> /\ iv = <<>> /\ ciphertext = <<>>
    /\ status = "none"
    /\ new_key = <<>>
    /\ runs = 0
    /\ fs0 = fs
    /\ dirs0 = dirs

\* The entry of main, for a command line a.
Main(a) ==
    \/ GenerateKey(a)
    \/ DecryptNoInput(a)
    \/ DecryptStart(a)
    \/ EncryptNoInput(a)
    \/ EncryptNoVersion(a)
    \/ EncryptInputNotFound(a)
    \/ MakedirsFails(a)
    \/ EncryptStart(a)

\* ------------------------------------------------------------ the tool
\* The command lines drawn.  An input is absent, a firmware image, an artifact
\* (missing until an encrypt run made it) or a directory; a version is absent,
\* plain, or names a directory that does not exist; --output-dir is its
\* default or a path that is a file; --output is absent or names the artifact.
VSub == <<"a", "/", "1">>
Inputs == {<<>>, FwPath, ArtPath, OtaReleases}

EncryptArgs ==
    [input : Inputs, version : {<<>>, V1, VSub}, output_dir : {OtaReleases, FwPath},
     decrypt : {FALSE}, output : {<<>>}, generate_key : {FALSE}]

DecryptArgs ==
    [input : Inputs, version : {<<>>}, output_dir : {OtaReleases},
     decrypt : {TRUE}, output : {<<>>, ArtPath}, generate_key : {FALSE}]

KeygenArgs ==
    [input : {<<>>}, version : {<<>>}, output_dir : {OtaReleases},
     decrypt : {FALSE}, output : {<<>>}, generate_key : {TRUE}]

ToolArgs == EncryptArgs \cup DecryptArgs \cup KeygenArgs

\* `fw` holds a firmware image, or an artifact made with the shipped key.
Init ==
    /\ ToolInit({Image(3, 0), EncryptBytes(Image(3, 0), AES_KEY, RandomIV(1))})
    /\ DescIdle /\ UsmIdle

Next == (\E a \in ToolArgs : Main(a)) \/ Steps

Spec == Init /\ [][Next]_vars

\* ------------------------------------------------------------ encrypt mode only
\* The tool run in encrypt mode only, any number of times.
EncMain(a) ==
    \/ EncryptNoInput(a)
    \/ EncryptNoVersion(a)
    \/ EncryptInputNotFound(a)
    \/ MakedirsFails(a)
    \/ EncryptStart(a)

EncSteps ==
    \/ EncReadFails \/ EncRead \/ EncOpenFails \/ EncOpen \/ EncWriteIV
    \/ EncWriteCiphertext \/ LatestOpen \/ LatestWrite
    \/ ReadError \/ WriteError \/ Exit

NextEnc == (\E a \in EncryptArgs : EncMain(a)) \/ EncSteps

SpecEnc == Init /\ [][NextEnc]_vars

\* ------------------------------------------------------------ the codec
\* The codec exercised through the tool: `fw` holds any firmware image or any
\* blob; it is encrypted to ota_releases/1.enc, and that artifact, or `fw`
\* itself, is decrypted.
OutPath == <<"o", "u", "t">>

CodecArgs ==
    {[NoArgs EXCEPT !.input = FwPath, !.version = V1, !.output_dir = OtaReleases],
     [NoArgs EXCEPT !.input = ArtPath, !.output_dir = OtaReleases, !.decrypt = TRUE],
     [NoArgs EXCEPT !.input = FwPath, !.output_dir = OtaReleases, !.decrypt = TRUE,
                    !.output = OutPath]}

InitCodec == ToolInit(Images \cup Blobs) /\ DescIdle /\ UsmIdle

NextCodec ==
    \/ \E a \in CodecArgs : (DecryptStart(a) \/ EncryptStart(a))
    \/ EncRead \/ EncOpen \/ EncWriteIV \/ EncWriteCiphertext
    \/ LatestOpen \/ LatestWrite
    \/ DecReadFails \/ DecryptFails \/ DecryptOk \/ DecOpen \/ DecWrite
    \/ ReadError \/ WriteError \/ Exit

SpecCodec == InitCodec /\ [][NextCodec]_vars

\* ------------------------------------------------------------ descriptor protocol
\* The tool is not running.
ToolIdle ==
    /\ key = AES_KEY /\ fs = <<>> /\ dirs = {} /\ pc = "idle" /\ args = NoArgs
    /\ output_path = <<>> /\ plaintext = <<>> /\ iv = <<>> /\ ciphertext = <<>>
    /\ status = "none" /\ new_key = <<>> /\ runs = 0 /\ fs0 = <<>> /\ dirs0 = {}

\* The characters version strings and blob identifiers are drawn from.
DescChars == {"1", ",", " ", "\n"}

\* Every string of at most n of them.
Strings(n) == UNION {[1..k -> DescChars] : k \in 0..n}

\* A version (--version, any string) and a blob identifier: any string, or the
\* placeholder the tool writes.
InitDesc ==
    /\ ToolIdle /\ UsmIdle
    /\ d_version \in Strings(MaxStrLen)
    /\ d_id \in Strings(MaxStrLen) \cup {FileIdPlaceholder}
    /\ d_record = <<>>
    /\ d_parsed = Raise("none")
    /\ d_pc = "init"

\* publish(version, blob_identifier): the record written to latest.txt.
DescPublish ==
    /\ d_pc = "init"
    /\ d_record' = DescriptorRecord(d_version, d_id)
    /\ d_pc' = "published"
    /\ UNCHANGED <<d_version, d_id, d_parsed, toolVars, usmVars>>

\* parse(record_bytes), by the client that fetched the record.
DescParse ==
    /\ d_pc = "published"
    /\ d_parsed' = ParseDescriptor(d_record)
    /\ d_pc' = "parsed"
    /\ UNCHANGED <<d_version, d_id, d_record, toolVars, usmVars>>

NextDesc == DescPublish \/ DescParse

SpecDesc == InitDesc /\ [][NextDesc]_vars

\* ------------------------------------------------------------ update state machine
\* The mutant of Inactive: the staged image goes to the active slot.
Inactive_active(p) == p

\* The slot that is not the active one.
Inactive(p) == 3 - p

\* is_newer(candidate_version, current_version)
IsNewer(c, v) == c > v

\* A device running version 1 from either slot, the other slot empty.
InitUsm ==
    /\ ToolIdle /\ DescIdle
    /\ u_state = "Idle"
    /\ primary \in {1, 2}
    /\ slot = [s \in {1, 2} |-> IF s = primary THEN 1 ELSE 0]
    /\ bootable = [s \in {1, 2} |-> s = primary]
    /\ boot_target = primary /\ running = primary
    /\ confirmed = TRUE
    /\ current = 1 /\ candidate = 0
    /\ remote \in 1..MaxVersion
    /\ image = "none"

\* The operator publishes another release.
UsmPublish ==
    /\ \E v \in 1..MaxVersion : v # remote /\ remote' = v
    /\ UNCHANGED <<u_state, slot, bootable, primary, boot_target, running,
                   confirmed, current, candidate, image, toolVars, descVars>>

\* Idle -> CheckingVersion, on the periodic or manual trigger.
UsmTrigger ==
    /\ u_state = "Idle"
    /\ u_state' = "CheckingVersion"
    /\ UNCHANGED <<slot, bootable, primary, boot_target, running, confirmed,
                   current, candidate, remote, image, toolVars, descVars>>

\* CheckingVersion -> Idle: the descriptor cannot be fetched or parsed, or the
\* remote version is not newer.
UsmNoUpdate ==
    /\ u_state = "CheckingVersion"
    /\ u_state' = "Idle"
    /\ UNCHANGED <<slot, bootable, primary, boot_target, running, confirmed,
                   current, candidate, remote, image, toolVars, descVars>>

\* CheckingVersion -> Fetching: the remote version is newer.
UsmNewer ==
    /\ u_state = "CheckingVersion"
    /\ IsNewer(remote, current)
    /\ candidate' = remote
    /\ u_state' = "Fetching"
    /\ UNCHANGED <<slot, bootable, primary, boot_target, running, confirmed,
                   current, remote, image, toolVars, descVars>>

\* Fetching -> Idle: FetchUnavailable, IncompleteTransfer, NotFound.
UsmFetchFails ==
    /\ u_state = "Fetching"
    /\ candidate' = 0
    /\ u_state' = "Idle"
    /\ UNCHANGED <<slot, bootable, primary, boot_target, running, confirmed,
                   current, remote, image, toolVars, descVars>>

\* Fetching -> Validating: the artifact is fetched, whatever it holds.
UsmFetched ==
    /\ u_state = "Fetching"
    /\ image' \in {"corrupt", "empty", "too_large", "good"}
    /\ u_state' = "Validating"
    /\ UNCHANGED <<slot, bootable, primary, boot_target, running, confirmed,
                   current, candidate, remote, toolVars, descVars>>

\* Validating -> Idle: MalformedArtifact, PaddingInvalid, ImageEmpty, ImageTooLarge.
UsmInvalid ==
    /\ u_state = "Validating"
    /\ image # "good"
    /\ image' = "none"
    /\ candidate' = 0
    /\ u_state' = "Idle"
    /\ UNCHANGED <<slot, bootable, primary, boot_target, running, confirmed,
                   current, remote, toolVars, descVars>>

\* Validating -> Staged: the image is written to the inactive slot.
UsmStage ==
    /\ u_state = "Validating"
    /\ image = "good"
    /\ slot' = [slot EXCEPT ![Inactive(primary)] = candidate]
    /\ bootable' = [bootable EXCEPT ![Inactive(primary)] = TRUE]
    /\ u_state' = "Staged"
    /\ UNCHANGED <<primary, boot_target, running, confirmed, current, candidate,
                   remote, image, toolVars, descVars>>

\* Staged -> Flashing: boot from the new slot on the next restart; the
\* boot-confirmation flag is cleared.
UsmFlash ==
    /\ u_state = "Staged"
    /\ boot_target' = Inactive(primary)
    /\ confirmed' = FALSE
    /\ u_state' = "Flashing"
    /\ UNCHANGED <<slot, bootable, primary, running, current, candidate, remote,
                   image, toolVars, descVars>>

\* Staged or Flashing -> Idle: the flash write or the slot switch failed; fall
\* back to the previously active slot.
UsmFlashFails ==
    /\ u_state \in {"Staged", "Flashing"}
    /\ boot_target' = primary
    /\ bootable' = [bootable EXCEPT ![Inactive(primary)] = FALSE]
    /\ confirmed' = TRUE
    /\ candidate' = 0
    /\ image' = "none"
    /\ u_state' = "Idle"
    /\ UNCHANGED <<slot, primary, running, current, remote, toolVars, descVars>>

\* Flashing -> PendingConfirmation: the device reboots into the new slot.
UsmReboot ==
    /\ u_state = "Flashing"
    /\ running' = boot_target
    /\ image' = "none"
    /\ u_state' = "PendingConfirmation"
    /\ UNCHANGED <<slot, bootable, primary, boot_target, confirmed, current,
                   candidate, remote, toolVars, descVars>>

\* PendingConfirmation -> Confirmed: the healthy checkpoint is reached; the
\* flag is set and the slot is marked primary.
UsmConfirm ==
    /\ u_state = "PendingConfirmation"
    /\ confirmed' = TRUE
    /\ primary' = running
    /\ current' = candidate
    /\ u_state' = "Confirmed"
    /\ UNCHANGED <<slot, bootable, boot_target, running, candidate, remote,
                   image, toolVars, descVars>>

\* PendingConfirmation -> RolledBack: no checkpoint in time; the bootloader
\* reverts to the previously active slot.
UsmRollback ==
    /\ u_state = "PendingConfirmation"
    /\ running' = primary
    /\ boot_target' = primary
    /\ bootable' = [bootable EXCEPT ![Inactive(primary)] = FALSE]
    /\ u_state' = "RolledBack"
    /\ UNCHANGED <<slot, primary, confirmed, current, candidate, remote, image,
                   toolVars, descVars>>

\* Confirmed -> Idle, RolledBack -> Idle: the new steady state.
UsmSettle ==
    /\ u_state \in {"Confirmed", "RolledBack"}
    /\ candidate' = 0
    /\ confirmed' = TRUE
    /\ u_state' = "Idle"
    /\ UNCHANGED <<slot, bootable, primary, boot_target, running, current,
                   remote, image, toolVars, descVars>>

NextUsm ==
    \/ UsmPublish \/ UsmTrigger \/ UsmNoUpdate \/ UsmNewer \/ UsmFetchFails
    \/ UsmFetched \/ UsmInvalid \/ UsmStage \/ UsmFlash \/ UsmFlashFails
    \/ UsmReboot \/ UsmConfirm \/ UsmRollback \/ UsmSettle

SpecUsm == InitUsm /\ [][NextUsm]_vars

\* ============================================================ properties
\* The spec's error names, as the exceptions the tool ends with.
MalformedArtifact ==
    {"Incorrect IV length (it must be 16 bytes long)",
     "Data must be padded to 16 byte boundary in CBC mode",
     "Zero-length input cannot be unpadded"}

PaddingInvalid == {"Padding is incorrect.", "PKCS#7 padding is incorrect."}

\* The invocation is a decrypt that has read its input file.
DecryptHasRead ==
    /\ args.decrypt
    /\ args.input \in DOMAIN fs0
    /\ pc \notin {"idle", "dec_read"}
    /\ status # "OSError: read"

\* An artifact shorter than the IV, or whose ciphertext is no positive
\* multiple of 16 bytes.
IsMalformed(c) ==
    \/ Len(c) < 16
    \/ Len(c) = 16
    \/ ((Len(c) - 16) % 16) # 0

\* Data ending in n bytes of value n, 1 <= n <= 16.
WellFormedPadding(p) ==
    /\ Len(p) > 0
    /\ p[Len(p)] >= 1 /\ p[Len(p)] <= 16 /\ p[Len(p)] <= Len(p)
    /\ \A i \in (Len(p) - p[Len(p)] + 1)..Len(p) : p[i] = p[Len(p)]

\* C1: decrypting, with the same key, the artifact that an encrypt run wrote
\* completely succeeds and yields exactly the plaintext that was encrypted,
\* whichever IV was drawn.
RoundTrip ==
    (DecryptHasRead /\ args.input = ArtPath /\ Len(fs0[ArtPath]) > 16)
      => /\ plaintext = fs[FwPath]
         /\ status \in {"none", "ok", "OSError: write"}
         /\ (status = "ok" => fs[output_path] = fs[FwPath])

RoundTripWitness ==
    /\ DecryptHasRead /\ args.input = ArtPath /\ status = "ok"
    /\ Len(fs[FwPath]) = 16
    /\ fs[output_path] = fs[FwPath]

\* C2: the artifact encrypt wrote is the 16-byte IV followed by the
\* ciphertext, the ciphertext a positive multiple of 16 bytes long: 16 * (n
\* div 16 + 1) for a plaintext of n bytes.
ArtifactLayout ==
    (~args.decrypt /\ (pc \in {"latest_open", "latest_write"} \/ status = "ok")
       /\ ~args.generate_key)
      => LET a == fs[output_path]
             n == Len(plaintext)
         IN  /\ Len(a) = 16 + Len(ciphertext)
             /\ Take(a, 16) = iv /\ Len(iv) = 16
             /\ Drop(a, 16) = ciphertext
             /\ Len(ciphertext) > 0
             /\ Len(ciphertext) % 16 = 0
             /\ Len(ciphertext) = 16 * ((n \div 16) + 1)
             /\ (n = 0 => Len(a) = 32)

ArtifactLayoutWitness ==
    /\ ~args.decrypt /\ pc = "latest_open"
    /\ Len(plaintext) = 16
    /\ Len(fs[output_path]) = 48

\* C3: a decrypt of an artifact shorter than 16 bytes, or whose length after
\* the IV is not a positive multiple of 16, ends with a MalformedArtifact
\* error, which is no PaddingInvalid error, and yields no plaintext.
MalformedRejected ==
    (DecryptHasRead /\ IsMalformed(fs0[args.input]))
      => /\ pc = "done"
         /\ status \in MalformedArtifact
         /\ status \notin PaddingInvalid
         /\ plaintext = <<>>
         /\ fs = fs0

MalformedRejectedWitness ==
    /\ DecryptHasRead /\ Len(fs0[args.input]) = 16
    /\ status = "Zero-length input cannot be unpadded"

\* C4: a decrypt of a structurally valid artifact whose CBC-decrypted data
\* does not end in well-formed PKCS#7 padding ends with a PaddingInvalid error
\* and yields no plaintext; a plaintext is yielded only for well-formed padding.
PaddingChecked ==
    (DecryptHasRead /\ ~IsMalformed(fs0[args.input]))
      => LET d == fs0[args.input]
             p == CBCDecrypt(key, Take(d, 16), Drop(d, 16))
         IN  /\ ~WellFormedPadding(p)
                  => /\ pc = "done"
                     /\ status \in PaddingInvalid
                     /\ plaintext = <<>>
                     /\ fs = fs0
             /\ (pc \in {"dec_open", "dec_write"} \/ status = "ok")
                  => WellFormedPadding(p)

PaddingCheckedWitness ==
    /\ DecryptHasRead /\ ~IsMalformed(fs0[args.input])
    /\ status = "PKCS#7 padding is incorrect."
    /\ fs0[args.input][Len(fs0[args.input])] # 0

\* C6: with the all-zero key the tool ends with InsecureKey at startup, before
\* anything is encrypted, decrypted or written.
InsecureKeyRejected ==
    (key = [i \in 1..32 |-> 0] /\ pc # "idle" /\ ~args.generate_key)
      => /\ pc = "done"
         /\ status = "InsecureKey"
         /\ fs = fs0 /\ dirs = dirs0

\* A file that holds an artifact: it decrypts under the key.
IsArtifactFile(f, q) == q \in DOMAIN f /\ DecryptBytes(f[q], key).ok

\* C7: no step of any invocation changes the bytes of an artifact file that
\* exists.
ArtifactNeverMutated ==
    [][\A q \in DOMAIN fs :
          IsArtifactFile(fs, q) => (q \in DOMAIN fs' /\ fs'[q] = fs[q])]_vars

\* latest.txt of directory d names version v.
LatestNames(d, v) ==
    /\ LatestPath(d) \in DOMAIN fs
    /\ Len(fs[LatestPath(d)]) > Len(v)
    /\ Take(fs[LatestPath(d)], Len(v) + 1) = Encode(v \o <<",">>)

ValidationFails(a) ==
    /\ ~a.generate_key
    /\ \/ a.decrypt /\ a.input = <<>>
       \/ ~a.decrypt /\ a.input = <<>>
       \/ ~a.decrypt /\ a.version = <<>>
       \/ ~a.decrypt /\ a.input \notin DOMAIN fs0 /\ a.input \notin dirs0

\* C10: an invocation whose arguments fail validation exits with status 1
\* having created or changed no file; a decrypt that fails on a malformed
\* artifact or on invalid padding creates or changes no file.
NoWriteOnError ==
    /\ (pc # "idle" /\ ValidationFails(args))
         => pc = "done" /\ status = "exit1" /\ fs = fs0 /\ dirs = dirs0
    /\ (DecryptHasRead /\ ~DecryptBytes(fs0[args.input], key).ok)
         => /\ pc = "done"
            /\ status \in MalformedArtifact \cup PaddingInvalid
            /\ fs = fs0 /\ dirs = dirs0

NoWriteOnErrorWitness ==
    /\ pc = "done" /\ args.decrypt
    /\ status \in MalformedArtifact \cup PaddingInvalid
    /\ output_path \in DOMAIN fs
    /\ runs = 2 /\ ArtPath \in DOMAIN fs

\* A string without a comma.
NoComma(t) == \A i \in 1..Len(t) : t[i] # ","

\* A non-empty string without comma or line break, and without white space at
\* either end.
IsCleanField(t) ==
    /\ Len(t) > 0
    /\ \A i \in 1..Len(t) : t[i] \notin {",", "\n"}
    /\ t[1] # " " /\ t[Len(t)] # " "

\* A record that is one line of text: one line break, at its end.
IsSingleLine(rec) ==
    /\ Len(rec) > 0
    /\ \A i \in 1..Len(rec) : (rec[i] = 10) <=> (i = Len(rec))

\* The record is the line "<v>,<id>" and parses back to (v, id).
RoundTrips ==
    /\ IsSingleLine(d_record)
    /\ d_record = Encode(d_version) \o <<44>> \o Encode(d_id) \o <<10>>
    /\ d_parsed = Ok(<<Encode(d_version), Encode(d_id)>>)

\* A string that holds more than white space.
HasText(t) == \E i \in 1..Len(t) : t[i] \notin {" ", "\n"}

ActiveSlotPreserved ==
    /\ [](slot[primary] = current /\ slot[primary] # 0 /\ bootable[primary])
    /\ [][/\ slot'[primary] = slot[primary]
          /\ bootable'[primary] = bootable[primary]
          /\ primary' # primary
               => /\ u_state = "PendingConfirmation" /\ u_state' = "Confirmed"
                  /\ confirmed'
                  /\ slot'[primary'] # 0 /\ bootable'[primary']]_vars

ActiveSlotPreservedWitness ==
    /\ u_state = "RolledBack"
    /\ slot[Inactive(primary)] > current
    /\ running = primary
    /\ current > 1

====
